---- MODULE Spec2Model ----
(***************************************************************************)
(* The block relay of ezyr-backend: the generic dispatcher                 *)
(* POST /block/execute over the blockConfigs registry, the stateless       *)
(* POST /oauth/refresh, the helper isTokenExpired, and the legacy          *)
(* PUT /update-entry of the first server.                                  *)
(*                                                                         *)
(* One request is in flight at a time: the handlers share no state, so     *)
(* interleaving two of them adds no behaviour.  A handler runs from its    *)
(* first line to its first await in one step; the awaited collaborator     *)
(* (axios, the googleapis SDK, the OAuth provider) answers in a later one. *)
(***************************************************************************)
EXTENDS Integers, Sequences, FiniteSets, TLC

VARIABLES
    pc,      \* where the server is: "idle", awaiting a collaborator, "done"
    req,     \* the request being handled (endpoint and body)
    ctx,     \* what the suspended handler keeps across its await
    calls,   \* the collaborator calls issued for this request, in order
    answer,  \* <<>>, or <<v>>: what the last awaited call resolved with
    thrown,  \* <<>>, or <<err>>: the exception the handler's catch received
    trail,   \* the steps the handler took for this request, in order
    res,     \* <<>> until the handler responds, then <<[status, body]>>
    now      \* Date.now()

vars == <<pc, req, ctx, calls, answer, thrown, trail, res, now>>

----------------------------------------------------------------------------
(* Bounds of the model *)

MaxRow == 2        \* rowIndex ranges over 0..MaxRow (and 9, 10 for the carry)
MaxTicks == 2      \* the clock advances at most this many milliseconds
MaxMessages == 1   \* messages a Gmail search returns
StartTime == 1000000   \* Date.now() when the model starts

----------------------------------------------------------------------------
(* JavaScript values.  A string is the sequence of the pieces it was        *)
(* concatenated from, a decimal digit always being a piece of its own, so   *)
(* that template literals, string + number and Number(string) are computed  *)
(* and not assumed: a literal chunk of a template is one piece, and every   *)
(* digit of a number or of a caller's numeric string is a piece of its own. *)
(* An object is its own entries in insertion order.                         *)

Undef == [t |-> "undefined"]
Null == [t |-> "null"]
NaN == [t |-> "NaN"]
Str(s) == [t |-> "string", s |-> s]
Num(n) == [t |-> "number", n |-> n]
Obj(es) == [t |-> "object", o |-> es]
Arr(a) == [t |-> "array", a |-> a]
Bool(b) == [t |-> "boolean", b |-> b]
S(piece) == Str(<<piece>>)
\* the params object itself, when it is stored in one of its own properties
Self == [t |-> "self"]
\* what a property read finds on Object.prototype (constructor, toString, ...)
Inherited == [t |-> "inherited"]
E(k, v) == [k |-> k, v |-> v]

ObjectPrototypeKeys ==
    {"constructor", "__proto__", "toString", "valueOf", "hasOwnProperty"}

Truthy(v) ==
    CASE v.t = "undefined" -> FALSE
      [] v.t = "null" -> FALSE
      [] v.t = "NaN" -> FALSE
      [] v.t = "string" -> v.s # <<>>
      [] v.t = "number" -> v.n # 0
      [] v.t = "boolean" -> v.b
      [] OTHER -> TRUE

\* a || b
Or(a, b) == IF Truthy(a) THEN a ELSE b

\* a destructuring default: only undefined takes it
Default(v, d) == IF v = Undef THEN d ELSE v

HasOwn(es, k) == \E i \in 1..Len(es) : es[i].k = k

\* obj[k] on a plain object: own property, else the prototype's, else undefined
Get(es, k) ==
    IF HasOwn(es, k) THEN es[CHOOSE i \in 1..Len(es) : es[i].k = k].v
    ELSE IF k \in ObjectPrototypeKeys THEN Inherited
    ELSE Undef

\* obj[k] = v: an existing key keeps its place, a new one goes last
Set(es, k, v) ==
    IF HasOwn(es, k)
    THEN [i \in 1..Len(es) |-> IF es[i].k = k THEN E(k, v) ELSE es[i]]
    ELSE Append(es, E(k, v))

\* v[k] on any value: strings, numbers and booleans have no such property
GetV(v, k) == IF v.t = "object" THEN Get(v.o, k) ELSE Undef

\* Object.values of a plain object
ObjectValues(es) == [i \in 1..Len(es) |-> es[i].v]

DigitChar == <<"0", "1", "2", "3", "4", "5", "6", "7", "8", "9">>

IsDigit(c) == \E d \in 1..10 : DigitChar[d] = c

DigitValue(c) == (CHOOSE d \in 1..10 : DigitChar[d] = c) - 1

RECURSIVE Digits(_)
\* String(n) for an integer n >= 0
Digits(n) ==
    IF n < 10 THEN <<DigitChar[n + 1]>>
    ELSE Digits(n \div 10) \o <<DigitChar[(n % 10) + 1]>>

RECURSIVE ParseDigits(_, _)
ParseDigits(s, acc) ==
    IF s = <<>> THEN acc ELSE ParseDigits(Tail(s), 10 * acc + DigitValue(Head(s)))

\* Number(v)
Number(v) ==
    CASE v.t = "number" -> v
      [] v.t = "string" ->
            IF v.s = <<>> THEN Num(0)
            ELSE IF \A i \in 1..Len(v.s) : IsDigit(v.s[i])
                 THEN Num(ParseDigits(v.s, 0))
                 ELSE NaN
      [] OTHER -> NaN

\* `${v}`: the pieces of String(v)
ToStr(v) ==
    CASE v.t = "string" -> v.s
      [] v.t = "number" -> Digits(v.n)
      [] v.t = "NaN" -> <<"NaN">>
      [] v.t = "undefined" -> <<"undefined">>
      [] v.t = "null" -> <<"null">>
      [] OTHER -> <<"[object Object]">>

\* a + b of JavaScript with a number on the right
Plus(a, n) ==
    CASE a.t = "number" -> Num(a.n + n)
      [] a.t = "string" -> Str(a.s \o Digits(n))
      [] OTHER -> NaN

----------------------------------------------------------------------------
(* blockConfigs: the registry.  An operation either carries execute (the    *)
(* name of its native handler here, "" when it has none) or the builders of *)
(* a REST call.  "" also stands for a responseField or transform that is    *)
(* null or missing.                                                         *)

RestOp(method, url, headers, payload, required, responseField) ==
    [service |-> "airtable", method |-> method, execute |-> "",
     buildUrl |-> url, buildHeaders |-> headers, buildPayload |-> payload,
     requiredFields |-> required, responseField |-> responseField,
     transform |-> ""]

NativeOp(service, method, handler) ==
    [service |-> service, method |-> method, execute |-> handler,
     buildUrl |-> "", buildHeaders |-> "", buildPayload |-> "",
     requiredFields |-> <<>>, responseField |-> "", transform |-> ""]

AirtableOperations ==
    [o \in {"fetch", "create", "update", "delete"} |->
        CASE o = "fetch" ->
                RestOp(<<"GET">>, "collection", "bearer", "",
                       <<"baseId", "tableName">>, "records")
          [] o = "create" ->
                RestOp(<<"POST">>, "collection", "bearerJson", "fields",
                       <<"baseId", "tableName">>, "")
          [] o = "update" ->
                RestOp(<<"PATCH">>, "record", "bearerJson", "fields",
                       <<"baseId", "tableName", "recordId">>, "")
          [] o = "delete" ->
                RestOp(<<"DELETE">>, "record", "bearer", "",
                       <<"baseId", "tableName", "recordId">>, "")]

GmailOperations ==
    [o \in {"fetch"} |-> NativeOp("gmail", <<"POST">>, "gmail.fetch")]

SheetsOperations ==
    [o \in {"fetch", "create", "update", "delete"} |->
        CASE o = "fetch" -> NativeOp("googlesheets", <<"GET">>, "sheets.fetch")
          [] o = "create" -> NativeOp("googlesheets", <<"POST">>, "sheets.create")
          [] o = "update" -> NativeOp("googlesheets", <<"PUT">>, "sheets.update")
          [] o = "delete" -> NativeOp("googlesheets", <<"DELETE">>, "sheets.delete")]

AirtableConfig == Obj(<<E("baseurl", Str(<<"https://api.airtable.com/v0">>))>>)

blockConfigs ==
    [b \in {"airtable-crud", "gmail_search_emails", "google-sheets-crud"} |->
        CASE b = "airtable-crud" ->
                [operations |-> AirtableOperations, config |-> AirtableConfig]
          [] b = "gmail_search_emails" ->
                [operations |-> GmailOperations, config |-> Undef]
          [] b = "google-sheets-crud" ->
                [operations |-> SheetsOperations, config |-> Undef]]

\* obj[key] on the registry or on a block's operations: "own" when key is an
\* own key, "inherited" when the read falls through to Object.prototype,
\* "undefined" otherwise
Lookup(ownKeys, key) ==
    IF key \in ownKeys THEN "own"
    ELSE IF key \in ObjectPrototypeKeys THEN "inherited"
    ELSE "undefined"

\* the builders of the REST operations
buildUrl(op, inputs, config) ==
    LET collection == ToStr(Get(config, "baseurl")) \o <<"/">>
                      \o ToStr(Get(inputs, "baseId")) \o <<"/">>
                      \o ToStr(Get(inputs, "tableName"))
    IN  IF op.buildUrl = "collection" THEN Str(collection)
        ELSE Str(collection \o <<"/">> \o ToStr(Get(inputs, "recordId")))

buildHeaders(op, credentials) ==
    LET authorization ==
            E("Authorization", Str(<<"Bearer ">> \o ToStr(Get(credentials, "apiKey"))))
    IN  IF op.buildHeaders = "bearer" THEN Obj(<<authorization>>)
        ELSE Obj(<<authorization, E("Content-Type", Str(<<"application/json">>))>>)

\* { ...v }: the own entries of an object, nothing for undefined or null
Spread(v) == IF v.t = "object" THEN v.o ELSE <<>>

\* a payload builder that forgets the fields wrapper
buildPayload_Unwrapped(op, inputs) == Obj(Spread(Get(inputs, "dataFields")))

buildPayload(op, inputs) ==
    Obj(<<E("fields", Obj(Spread(Get(inputs, "dataFields"))))>>)

\* String.prototype.toLowerCase on the method names of the registry
ToLowerCase(s) ==
    CASE s = <<"GET">> -> <<"get">>
      [] s = <<"POST">> -> <<"post">>
      [] s = <<"PATCH">> -> <<"patch">>
      [] s = <<"PUT">> -> <<"put">>
      [] s = <<"DELETE">> -> <<"delete">>
      [] OTHER -> s

----------------------------------------------------------------------------
(* What a handler step leaves behind *)

NoCtx == [h |-> "", stage |-> "", credentials |-> <<>>, inputs |-> <<>>,
          op |-> NativeOp("", <<>>, "")]

Response(status, body) == <<[status |-> status, body |-> body]>>

ErrorBody(text) == Obj(<<E("error", Str(text))>>)

\* return res.status(status).json(body)
Respond(status, body) ==
    [pc |-> "done", ctx |-> NoCtx, calls |-> <<>>, thrown |-> <<>>,
     trail |-> <<"respond">>, res |-> Response(status, body)]

TypeError(text) == [status |-> 0, message |-> Str(text)]

\* the catch of /block/execute
BlockExecuteCatch(err) ==
    Response(500, Obj(<<E("error", Or(err.message, Str(<<"Block execution failed">>)))>>))

SPREADSHEET_ID == Str(<<"MY_SPREEDSHEET_ID">>)

\* the first SDK call of a native handler
NativeCall(h, credentials, inputs) ==
    LET auth == [clientId |-> Get(credentials, "clientId"),
                 secretId |-> Get(credentials, "secretId"),
                 access_token |-> Get(credentials, "access_token")]
        row == Plus(Number(Get(inputs, "rowIndex")), 1)
        values == E("requestBody",
                    Obj(<<E("values", Arr(<<Get(inputs, "valuesArray")>>))>>))
        call(api, args) == [kind |-> "sdk", api |-> api, auth |-> auth, args |-> args]
    IN  CASE h = "gmail.fetch" ->
                call("gmail.users.messages.list",
                     <<E("userId", Str(<<"me">>)), E("q", Get(inputs, "query")),
                       E("maxResults", Num(10))>>)
          [] h = "sheets.fetch" ->
                call("sheets.spreadsheets.values.get",
                     <<E("spreadsheetId", SPREADSHEET_ID),
                       E("range", Str(<<"Sheet1!A1:B1000">>))>>)
          [] h = "sheets.create" ->
                call("sheets.spreadsheets.values.append",
                     <<E("spreadsheetId", SPREADSHEET_ID),
                       E("range", Str(<<"Sheet1!A", "1">>)),
                       E("valueInputOption", Str(<<"RAW">>)), values>>)
          [] h = "sheets.update" ->
                call("sheets.spreadsheets.values.update",
                     <<E("spreadsheetId", SPREADSHEET_ID),
                       E("range", Str(<<"Sheet1!A">> \o ToStr(row))),
                       E("valueInputOption", Str(<<"RAW">>)), values>>)
          [] h = "sheets.delete" ->
                call("sheets.spreadsheets.batchUpdate",
                     <<E("spreadsheetId", SPREADSHEET_ID),
                       E("sheetId", Num(0)), E("dimension", Str(<<"ROWS">>)),
                       E("startIndex", Plus(row, -1)), E("endIndex", row)>>)

\* lines 88-90: the credential aliases the dispatcher copies
NormalizeCredentials(c) ==
    LET c1 == IF ~Truthy(Get(c, "clientId")) /\ Truthy(Get(c, "client_id"))
              THEN Set(c, "clientId", Get(c, "client_id")) ELSE c
        c2 == IF ~Truthy(Get(c1, "secretId")) /\ Truthy(Get(c1, "client_secret"))
              THEN Set(c1, "secretId", Get(c1, "client_secret")) ELSE c1
    IN  IF ~Truthy(Get(c2, "access_token"))
        THEN Set(c2, "access_token", Get(c2, "accessToken")) ELSE c2

\* Object.values(v), v a property of params or params itself (Self)
ValuesOf(v, params) ==
    CASE v.t = "self" -> ObjectValues(params)
      [] v.t = "object" -> ObjectValues(v.o)
      [] v.t = "array" -> v.a
      [] OTHER -> <<>>

\* lines 92-93: dataFields and valuesArray are stored on params itself
NormalizeParams(p) ==
    LET p1 == Set(p, "dataFields", Or(Get(p, "dataFields"), Or(Get(p, "fields"), Self)))
        source == Or(Get(p1, "dataFields"), Self)
    IN  Set(p1, "valuesArray", Or(Get(p1, "valuesArray"), Arr(ValuesOf(source, p1))))

\* a required-field check that looks at the first required field only
MissingRequiredFields_FirstOnly(op, params) ==
    op.requiredFields # <<>> /\ ~Truthy(Get(params, op.requiredFields[1]))

\* line 102: op.requiredFields.some(f => !params[f])
MissingRequiredFields(op, params) ==
    \E i \in 1..Len(op.requiredFields) : ~Truthy(Get(params, op.requiredFields[i]))

\* lines 102-119: the REST path to its await
RestStep(block, op, params, credentials) ==
    IF MissingRequiredFields(op, params)
    THEN [Respond(400, ErrorBody(<<"Missing required fields">>))
            EXCEPT !.trail = <<"requiredFields", "respond">>]
    ELSE
    LET config == Or(block.config, Obj(<<>>))
        url == buildUrl(op, params, config.o)
        headers == buildHeaders(op, credentials)
        payload == IF op.buildPayload # "" THEN buildPayload(op, params) ELSE Undef
        method == ToLowerCase(op.method)
        dropData == ~Truthy(payload) /\ (method = <<"get">> \/ method = <<"delete">>)
        axiosConfig == [kind |-> "axios", url |-> url, method |-> method,
                        headers |-> headers, hasData |-> ~dropData, data |-> payload]
    IN  [pc |-> "awaitAxios",
         ctx |-> [NoCtx EXCEPT !.h = "rest", !.op = op,
                               !.credentials = credentials, !.inputs = params],
         calls |-> <<axiosConfig>>, thrown |-> <<>>,
         trail |-> <<"requiredFields", "buildUrl", "buildHeaders">>
                   \o (IF op.buildPayload # "" THEN <<"buildPayload">> ELSE <<>>)
                   \o <<"axios">>,
         res |-> <<>>]

\* lines 86-96: the native path to the await of op.execute
NativeStep(op, params, credentials) ==
    LET c == NormalizeCredentials(credentials)
        inputs == NormalizeParams(params)
    IN  [pc |-> "awaitSdk",
         ctx |-> [NoCtx EXCEPT !.h = op.execute, !.stage = "first", !.op = op,
                               !.credentials = c, !.inputs = inputs],
         calls |-> <<NativeCall(op.execute, c, inputs)>>, thrown |-> <<>>,
         trail |-> <<"execute">>, res |-> <<>>]

\* a TypeError thrown before any await lands in the catch
Throws(err) ==
    [pc |-> "done", ctx |-> NoCtx, calls |-> <<>>, thrown |-> <<err>>,
     trail |-> <<"respond">>, res |-> BlockExecuteCatch(err)]

\* a dispatcher that never looks at op.execute
Dispatch_IgnoresExecute(block, op, params, credentials) ==
    RestStep(block, op, params, credentials)

\* lines 86-119: if (op.execute) the native path, and it returns; else REST
Dispatch(block, op, params, credentials) ==
    IF op.execute # ""
    THEN NativeStep(op, params, credentials)
    ELSE RestStep(block, op, params, credentials)

\* lines 80-119 of POST /block/execute: from the request to the first await
BlockExecuteStep(body) ==
    LET params == Default(body.params, Obj(<<>>)).o
        credentials == Default(body.credentials, Obj(<<>>)).o
        blockFound == Lookup(DOMAIN blockConfigs, body.blockId)
    IN  CASE blockFound = "undefined" -> Respond(400, ErrorBody(<<"Block not found">>))
          [] blockFound = "inherited" ->
                \* block.operations is undefined
                Throws(TypeError(<<"Cannot read properties of undefined">>))
          [] OTHER ->
                LET block == blockConfigs[body.blockId]
                    opFound == Lookup(DOMAIN block.operations, body.operation)
                IN  CASE opFound = "undefined" ->
                            Respond(400, ErrorBody(<<"Operation not found">>))
                      [] opFound = "inherited" ->
                            \* no execute, no requiredFields, no buildUrl
                            [Throws(TypeError(<<"op.buildUrl is not a function">>))
                                EXCEPT !.trail = <<"requiredFields", "buildUrl", "respond">>]
                      [] OTHER ->
                            Dispatch(block, block.operations[body.operation],
                                     params, credentials)

\* what the awaited collaborator may reject with: an HTTP status (0: none,
\* the request never got an answer) and a message
Failures ==
    {[status |-> st, message |-> Str(<<"Request failed with status code ">> \o Digits(st))] :
        st \in {401, 403, 404, 500}}
    \cup {[status |-> 0, message |-> S("Network Error")],
          [status |-> 0, message |-> Str(<<>>)]}

\* bodies the Airtable API answers with
AxiosData ==
    {Obj(<<E("records", Arr(<<S("rec1")>>))>>), Obj(<<E("id", S("rec1"))>>), Str(<<>>)}

\* lines 121-125: the REST path after its await
RestResult(op, data) ==
    LET out == IF op.responseField # "" THEN GetV(data, op.responseField) ELSE data
    IN  Response(200, out)

\* String.prototype.trim on pieces: blanks at either end go
RECURSIVE TrimLeft(_)
TrimLeft(s) == IF s # <<>> /\ Head(s) = " " THEN TrimLeft(Tail(s)) ELSE s

RECURSIVE TrimRight(_)
TrimRight(s) ==
    IF s # <<>> /\ s[Len(s)] = " " THEN TrimRight(SubSeq(s, 1, Len(s) - 1)) ELSE s

Trim(s) == TrimRight(TrimLeft(s))

\* the filter of google-sheets-crud.fetch
KeepRow(row) == Truthy(row) /\ Len(row.a) > 0 /\ Trim(row.a[1].s) # <<>>

\* google-sheets-crud.fetch after its await
SheetsFetchResult(data) ==
    LET rows == SelectSeq(Or(GetV(data, "values"), Arr(<<>>)).a, KeepRow)
        cell(row, i) == IF i <= Len(row.a) THEN Or(row.a[i], Str(<<>>)) ELSE Str(<<>>)
        record(i) == Obj(<<E("id", Num(i - 1)),
                           E("fields", Obj(<<E("name", cell(rows[i], 1)),
                                             E("email", cell(rows[i], 2))>>))>>)
    IN  Obj(<<E("data", Arr([i \in 1..Len(rows) |-> record(i)]))>>)

\* what the Sheets API answers a values.get with
SheetsData ==
    {Obj(<<>>),
     Obj(<<E("values", Arr(<<>>))>>),
     Obj(<<E("values", Arr(<<Arr(<<S("Alice"), S("a@x.com")>>), Arr(<<>>),
                            Arr(<<S(" ")>>), Arr(<<S("Bob")>>)>>))>>)}

\* the header filter of gmail_search_emails.fetch
RECURSIVE PickHeaders(_, _)
PickHeaders(hs, acc) ==
    IF hs = <<>> THEN acc
    ELSE LET h == Head(hs)
         IN  PickHeaders(Tail(hs),
                IF h.name \in {"From", "Subject", "Date"}
                THEN Set(acc, h.name, h.value) ELSE acc)

\* one record of gmail_search_emails.fetch from a message and its detail
GmailRecord(id, detail) ==
    Obj(<<E("id", id),
          E("fields", Obj(Set(PickHeaders(detail.headers, <<>>), "Snippet", detail.snippet)))>>)

\* what the Gmail API answers a messages.get with (headers || [] applied)
GmailDetails ==
    {[headers |-> <<>>, snippet |-> S("hi")],
     [headers |-> <<[name |-> "Subject", value |-> S("Hello")],
                    [name |-> "X-Mailer", value |-> S("m")],
                    [name |-> "From", value |-> S("a@x.com")]>>,
      snippet |-> S("hi")]}

GmailGet(auth, id) ==
    [kind |-> "sdk", api |-> "gmail.users.messages.get", auth |-> auth,
     args |-> <<E("userId", S("me")), E("id", id), E("format", S("metadata"))>>]

MessageIds == [i \in 1..MaxMessages |-> Str(<<"m">> \o Digits(i))]

\* the results the other native handlers return
NativeStatus(h) ==
    CASE h = "sheets.create" -> Obj(<<E("status", S("success"))>>)
      [] h = "sheets.update" -> Obj(<<E("status", S("updated"))>>)
      [] h = "sheets.delete" -> Obj(<<E("status", S("deleted"))>>)

----------------------------------------------------------------------------
(* isTokenExpired, and POST /oauth/refresh *)

bufferTime == 5 * 60 * 1000

isTokenExpired(tokenData) ==
    IF ~Truthy(Get(tokenData, "expires_at")) THEN FALSE
    ELSE now > Get(tokenData, "expires_at").n - bufferTime

\* lines 37-45 of POST /oauth/refresh: from the request to the provider call
OauthRefreshStep(body) ==
    IF ~Truthy(body.refresh_token) \/ ~Truthy(body.client_id) \/ ~Truthy(body.client_secret)
    THEN Respond(400, ErrorBody(<<"Missing refresh_token or client credentials">>))
    ELSE [pc |-> "awaitRefresh", ctx |-> NoCtx,
          calls |-> <<[kind |-> "oauth", api |-> "refreshAccessToken",
                       client_id |-> body.client_id,
                       client_secret |-> body.client_secret,
                       refresh_token |-> body.refresh_token]>>,
          thrown |-> <<>>, trail |-> <<"refreshAccessToken">>, res |-> <<>>]

\* a bundle that always takes the provider's refresh token, returned or not
RefreshedTokenData_ProviderOnly(body, credentials) ==
    Obj(<<E("client_id", body.client_id),
          E("client_secret", body.client_secret),
          E("access_token", Get(credentials, "access_token")),
          E("refresh_token", Get(credentials, "refresh_token")),
          E("expires_at", Or(Get(credentials, "expiry_date"), Num(now + 3600 * 1000))),
          E("token_type", Or(Get(credentials, "token_type"), S("Bearer")))>>)

\* lines 46-54: the bundle built from the provider's credentials
RefreshedTokenData(body, credentials) ==
    Obj(<<E("client_id", body.client_id),
          E("client_secret", body.client_secret),
          E("access_token", Get(credentials, "access_token")),
          E("refresh_token", Or(Get(credentials, "refresh_token"), body.refresh_token)),
          E("expires_at", Or(Get(credentials, "expiry_date"), Num(now + 3600 * 1000))),
          E("token_type", Or(Get(credentials, "token_type"), S("Bearer")))>>)

\* lines 55-57: the catch of /oauth/refresh
RefreshCatch(err) ==
    Response(400, Obj(<<E("error", S("Token refresh failed")),
                        E("details", err.message),
                        E("requiresReauth", Bool(TRUE))>>))

----------------------------------------------------------------------------
(* PUT /update-entry of the legacy server *)

\* lines 86-103: from the request to the Sheets call
UpdateEntryStep(body) ==
    IF ~Truthy(body.access_token) \/ body.rowIndex = Undef \/ ~Truthy(body.values)
    THEN Respond(400, S("Missing data"))
    ELSE [pc |-> "awaitUpdateEntry", ctx |-> NoCtx,
          calls |-> <<[kind |-> "sdk", api |-> "sheets.spreadsheets.values.update",
                       auth |-> [clientId |-> Undef, secretId |-> Undef,
                                 access_token |-> body.access_token],
                       args |-> <<E("spreadsheetId", SPREADSHEET_ID),
                                  E("range", Str(<<"Sheet1!A">> \o ToStr(Plus(body.rowIndex, 1)))),
                                  E("valueInputOption", S("RAW")),
                                  E("requestBody", Obj(<<E("values", Arr(<<body.values>>))>>))>>]>>,
          thrown |-> <<>>, trail |-> <<"update">>, res |-> <<>>]

----------------------------------------------------------------------------
(* The requests the model sends *)

RowIndices == (0..MaxRow) \cup {9, 10}

\* a rowIndex as JSON carries it: a number, or the same number as a string
RowValues == {Num(r) : r \in RowIndices} \cup {Str(Digits(r)) : r \in RowIndices}

Person == <<E("name", S("Alice")), E("email", S("a@x.com"))>>

\* the same fields, flat, nested under fields, under dataFields, or as values
FieldForms ==
    {Person,
     <<E("fields", Obj(Person))>>,
     <<E("dataFields", Obj(Person))>>,
     <<E("valuesArray", Arr(ObjectValues(Person)))>>}

SheetsParams ==
    {Obj(f) : f \in FieldForms \cup {<<>>}}
    \cup {Obj(<<E("rowIndex", r)>> \o f) : r \in RowValues, f \in FieldForms}

AirtableParams ==
    {Obj(SelectSeq(<<E("baseId", b), E("tableName", t), E("recordId", r),
                     E("dataFields", d)>>, LAMBDA e : e.v # Undef)) :
        b \in {Undef, Str(<<>>), S("b1")}, t \in {Undef, S("t1")},
        r \in {Undef, S("r1")}, d \in {Undef, Obj(<<E("name", S("x"))>>)}}

GmailParams == {Obj(<<>>), Obj(<<E("query", S("is:unread"))>>)}

ParamsOf(blockId) ==
    {Undef} \cup
    CASE blockId = "airtable-crud" -> AirtableParams
      [] blockId = "gmail_search_emails" -> GmailParams
      [] blockId = "google-sheets-crud" -> SheetsParams
      [] OTHER -> {Obj(<<>>)}

\* the spellings a caller may give the client id, the secret and the token
GoogleSpellings ==
    {<<>>,
     <<E("client_id", S("id")), E("client_secret", S("sec")), E("access_token", S("tok"))>>,
     <<E("clientId", S("id")), E("clientSecret", S("sec")), E("accessToken", S("tok"))>>,
     <<E("clientId", S("id")), E("secretId", S("sec")), E("access_token", S("tok"))>>,
     <<E("clientId", S("id")), E("client_secret", S("sec")), E("accessToken", S("tok"))>>}

\* expires_at: none, the epoch, the last not-yet-expired instant, one later
ExpiryForms ==
    {<<>>} \cup {<<E("expires_at", Num(t))>> :
                    t \in {0, StartTime + bufferTime, StartTime + bufferTime + 1}}

RefreshForms == {<<>>, <<E("refresh_token", S("rt"))>>}

GoogleCredentials ==
    {Obj(c \o r \o x) : c \in GoogleSpellings, r \in RefreshForms, x \in ExpiryForms}

CredentialsOf(blockId) ==
    CASE blockId = "airtable-crud" -> {Undef, Obj(<<>>), Obj(<<E("apiKey", S("k"))>>)}
      [] blockId \in {"gmail_search_emails", "google-sheets-crud"} -> GoogleCredentials
      [] OTHER -> {Undef}

BlockIds == DOMAIN blockConfigs \cup {"no-such-block", "constructor", "__proto__"}

Operations == {"fetch", "create", "update", "delete", "no-such-op", "constructor", "toString"}

BlockExecuteBodies ==
    UNION {[blockId : {b}, operation : Operations, params : ParamsOf(b),
            credentials : CredentialsOf(b)] : b \in BlockIds}

OauthRefreshBodies ==
    [refresh_token : {Undef, Str(<<>>), S("rt")},
     client_id : {Undef, S("id")},
     client_secret : {Undef, S("sec")}]

\* what refreshAccessToken resolves with
ProviderCredentials ==
    {SelectSeq(<<E("access_token", S("tok2")), E("refresh_token", r),
                 E("expiry_date", x), E("token_type", t)>>, LAMBDA e : e.v # Undef) :
        r \in {Undef, S("rt2")}, x \in {Undef, Num(now + 1800 * 1000)},
        t \in {Undef, S("Bearer"), S("MAC")}}

UpdateEntryBodies ==
    [access_token : {Undef, S("tok")},
     rowIndex : {Undef} \cup RowValues,
     values : {Undef, Arr(ObjectValues(Person))}]

----------------------------------------------------------------------------
(* The actions *)

Init ==
    /\ pc = "idle"
    /\ req = [endpoint |-> "", body |-> Undef]
    /\ ctx = NoCtx
    /\ calls = <<>>
    /\ answer = <<>>
    /\ thrown = <<>>
    /\ trail = <<>>
    /\ res = <<>>
    /\ now = StartTime

\* the server takes the next request once the last one is answered and gone
Ready == pc = "idle"

Becomes(endpoint, body, out) ==
    /\ req' = [endpoint |-> endpoint, body |-> body]
    /\ pc' = out.pc
    /\ ctx' = out.ctx
    /\ calls' = out.calls
    /\ answer' = <<>>
    /\ thrown' = out.thrown
    /\ trail' = out.trail
    /\ res' = out.res
    /\ UNCHANGED now

\* POST /block/execute arrives and runs to its first await or its response
BlockExecute ==
    /\ Ready
    /\ \E body \in BlockExecuteBodies :
          Becomes("/block/execute", body, BlockExecuteStep(body))

\* axios settles
AxiosReply ==
    /\ pc = "awaitAxios"
    /\ \/ \E data \in AxiosData :
             /\ answer' = <<data>>
             /\ res' = RestResult(ctx.op, data)
             /\ UNCHANGED thrown
       \/ \E err \in Failures :
             /\ thrown' = <<err>>
             /\ res' = BlockExecuteCatch(err)
             /\ UNCHANGED answer
    /\ pc' = "done"
    /\ trail' = Append(trail, "respond")
    /\ UNCHANGED <<req, ctx, calls, now>>

\* the SDK call a native handler awaits settles
SdkReply ==
    /\ pc = "awaitSdk"
    /\ \/ \E err \in Failures :
             /\ thrown' = <<err>>
             /\ res' = BlockExecuteCatch(err)
             /\ pc' = "done"
             /\ UNCHANGED <<ctx, calls, answer>>
       \/ /\ ctx.h \in {"sheets.create", "sheets.update", "sheets.delete"}
          /\ answer' = <<Obj(<<>>)>>
          /\ res' = Response(200, NativeStatus(ctx.h))
          /\ pc' = "done"
          /\ UNCHANGED <<ctx, calls, thrown>>
       \/ /\ ctx.h = "sheets.fetch"
          /\ \E data \in SheetsData :
                /\ answer' = <<data>>
                /\ res' = Response(200, SheetsFetchResult(data))
          /\ pc' = "done"
          /\ UNCHANGED <<ctx, calls, thrown>>
       \/ \* messages.list answered: one messages.get per message, all awaited
          /\ ctx.h = "gmail.fetch" /\ ctx.stage = "first"
          /\ \E n \in 0..MaxMessages :
                /\ answer' = <<Arr(SubSeq(MessageIds, 1, n))>>
                /\ IF n = 0
                   THEN /\ res' = Response(200, Obj(<<E("records", Arr(<<>>))>>))
                        /\ pc' = "done"
                        /\ UNCHANGED <<ctx, calls>>
                   ELSE /\ calls' = calls \o [i \in 1..n |->
                                                GmailGet(calls[1].auth, MessageIds[i])]
                        /\ ctx' = [ctx EXCEPT !.stage = "detail"]
                        /\ UNCHANGED <<pc, res>>
          /\ UNCHANGED thrown
       \/ /\ ctx.h = "gmail.fetch" /\ ctx.stage = "detail"
          /\ \E detail \in GmailDetails :
                /\ answer' = <<Obj(<<E("snippet", detail.snippet)>>)>>
                /\ res' = Response(200,
                      Obj(<<E("records",
                              Arr([i \in 1..(Len(calls) - 1) |->
                                      GmailRecord(MessageIds[i], detail)]))>>))
          /\ pc' = "done"
          /\ UNCHANGED <<ctx, calls, thrown>>
    /\ trail' = IF pc' = "done" THEN Append(trail, "respond") ELSE trail
    /\ UNCHANGED <<req, now>>

\* POST /oauth/refresh arrives
OauthRefresh ==
    /\ Ready
    /\ \E body \in OauthRefreshBodies :
          Becomes("/oauth/refresh", body, OauthRefreshStep(body))

\* refreshAccessToken settles
RefreshReply ==
    /\ pc = "awaitRefresh"
    /\ \/ \E credentials \in ProviderCredentials :
             /\ answer' = <<Obj(credentials)>>
             /\ res' = Response(200, RefreshedTokenData(req.body, credentials))
             /\ UNCHANGED thrown
       \/ \E err \in Failures :
             /\ thrown' = <<err>>
             /\ res' = RefreshCatch(err)
             /\ UNCHANGED answer
    /\ pc' = "done"
    /\ trail' = Append(trail, "respond")
    /\ UNCHANGED <<req, ctx, calls, now>>

\* PUT /update-entry arrives
UpdateEntry ==
    /\ Ready
    /\ \E body \in UpdateEntryBodies :
          Becomes("/update-entry", body, UpdateEntryStep(body))

\* the Sheets call of /update-entry settles
UpdateEntryReply ==
    /\ pc = "awaitUpdateEntry"
    /\ \/ /\ answer' = <<Obj(<<>>)>>
          /\ res' = Response(200, Obj(<<E("status", S("updated"))>>))
          /\ UNCHANGED thrown
       \/ \E err \in Failures :
             /\ thrown' = <<err>>
             /\ res' = Response(500, S("Error updating entry"))
             /\ UNCHANGED answer
    /\ pc' = "done"
    /\ trail' = Append(trail, "respond")
    /\ UNCHANGED <<req, ctx, calls, now>>

\* the response is out: nothing of the request stays behind
Finish ==
    /\ pc = "done"
    /\ pc' = "idle"
    /\ req' = [endpoint |-> "", body |-> Undef]
    /\ ctx' = NoCtx
    /\ calls' = <<>>
    /\ answer' = <<>>
    /\ thrown' = <<>>
    /\ trail' = <<>>
    /\ res' = <<>>
    /\ UNCHANGED now

\* time passes
Tick ==
    /\ now < StartTime + MaxTicks
    /\ now' = now + 1
    /\ UNCHANGED <<pc, req, ctx, calls, answer, thrown, trail, res>>

Next ==
    \/ BlockExecute
    \/ AxiosReply
    \/ SdkReply
    \/ OauthRefresh
    \/ RefreshReply
    \/ UpdateEntry
    \/ UpdateEntryReply
    \/ Finish
    \/ Tick

Spec == Init /\ [][Next]_vars

----------------------------------------------------------------------------
(* The claims *)

IsBlockExecute == req.endpoint = "/block/execute"

\* the request's params and credentials as the handler destructures them
ReqParams == Default(req.body.params, Obj(<<>>)).o

ReqCredentials == Default(req.body.credentials, Obj(<<>>)).o

KnownBlock == IsBlockExecute /\ req.body.blockId \in DOMAIN blockConfigs

KnownOperation ==
    KnownBlock /\ req.body.operation \in DOMAIN blockConfigs[req.body.blockId].operations

ReqOp == blockConfigs[req.body.blockId].operations[req.body.operation]

IsRestDispatch == KnownOperation /\ ReqOp.execute = ""

IsNativeDispatch == KnownOperation /\ ReqOp.execute # ""

\* C1: a /block/execute request whose blockId is no block of the registry, or
\* whose operation is no operation of its block, is answered 400 and issues
\* no network call, whatever the two strings are.
C1_UnknownTargetIs400 ==
    (IsBlockExecute /\ ~KnownOperation) =>
        /\ calls = <<>>
        /\ res # <<>> /\ res[1].status = 400

\* C2: a dispatch to a REST operation with a required field absent from
\* params is answered 400 and never issues the HTTP call; and an HTTP call is
\* issued only when every required field is present.
C2_MissingRequiredFieldIs400 ==
    IsRestDispatch =>
        LET required == ReqOp.requiredFields
            absent == \E i \in 1..Len(required) : ~HasOwn(ReqParams, required[i])
        IN  /\ absent => (calls = <<>> /\ res # <<>> /\ res[1].status = 400)
            /\ calls # <<>> => ~absent

C2_Witness ==
    /\ IsRestDispatch
    /\ HasOwn(ReqParams, "baseId") /\ ~HasOwn(ReqParams, "tableName")
    /\ res # <<>> /\ res[1].status = 400

\* C3: when the downstream call of a dispatch fails with HTTP 401 or 403, the
\* error response carries requiresReauth = true, and no response to another
\* downstream failure does.
C3_AuthFailureRequiresReauth ==
    (IsBlockExecute /\ thrown # <<>> /\ calls # <<>>) =>
        (thrown[1].status \in {401, 403}
            <=> GetV(res[1].body, "requiresReauth") = Bool(TRUE))

IsDownstream(call) == call.kind \in {"axios", "sdk"}

\* C4: a request that arrives with a bundle that is expired (or within the
\* buffer window) and has a refresh token makes exactly one refresh call to
\* the OAuth provider before its downstream call.
C4_OneRefreshBeforeDispatch ==
    [][(/\ pc = "idle" /\ req'.endpoint = "/block/execute"
        /\ isTokenExpired(Default(req'.body.credentials, Obj(<<>>)).o)
        /\ Truthy(GetV(req'.body.credentials, "refresh_token"))
        /\ \E i \in 1..Len(calls') : IsDownstream(calls'[i]))
       => LET first == CHOOSE i \in 1..Len(calls') :
                          /\ IsDownstream(calls'[i])
                          /\ \A j \in 1..(i - 1) : ~IsDownstream(calls'[j])
          IN  Cardinality({j \in 1..(first - 1) : calls'[j].kind = "oauth"}) = 1]_vars

\* C5: isTokenExpired is true exactly when expires_at is present and
\* now > expires_at - 5 minutes, whatever the value of expires_at.
C5_ExpiredIffPastBuffer ==
    IsBlockExecute =>
        (isTokenExpired(ReqCredentials)
            <=> /\ HasOwn(ReqCredentials, "expires_at")
                /\ now > Get(ReqCredentials, "expires_at").n - 5 * 60 * 1000)

\* C6: every successful refresh answers with the provider's access token;
\* the provider's refresh token if it returned one, else the request's; the
\* provider's expiry, else now + 3600 s; the provider's token type, else
\* "Bearer".
C6_RefreshedBundle ==
    [][(pc = "awaitRefresh" /\ res' # <<>> /\ res'[1].status = 200) =>
        LET provider == answer'[1]
            bundle == res'[1].body
            given(k) == HasOwn(provider.o, k)
        IN  /\ GetV(bundle, "access_token") = GetV(provider, "access_token")
            /\ GetV(bundle, "refresh_token") =
                    IF given("refresh_token") THEN GetV(provider, "refresh_token")
                    ELSE req.body.refresh_token
            /\ GetV(bundle, "expires_at") =
                    IF given("expiry_date") THEN GetV(provider, "expiry_date")
                    ELSE Num(now + 3600 * 1000)
            /\ GetV(bundle, "token_type") =
                    IF given("token_type") THEN GetV(provider, "token_type")
                    ELSE S("Bearer")]_vars

C6_Witness ==
    /\ req.endpoint = "/oauth/refresh" /\ pc = "done"
    /\ res[1].status = 200
    /\ answer # <<>> /\ ~HasOwn(answer[1].o, "refresh_token")
    /\ ~HasOwn(answer[1].o, "expiry_date")
    /\ GetV(res[1].body, "refresh_token") = S("rt")

\* the field mapping the caller sent: params.fields when nested, else params
CallerFields == IF HasOwn(ReqParams, "fields") THEN Get(ReqParams, "fields").o ELSE ReqParams

\* the object a property of the inputs denotes
Deref(v, inputs) == IF v = Self THEN inputs ELSE v.o

\* C7: the inputs handed to a native strategy hold dataFields equal to the
\* caller's field mapping, flat or nested under fields, and valuesArray equal
\* to that mapping's values in insertion order, nothing more.
C7_NativeInputsCarryCallerFields ==
    (/\ IsNativeDispatch /\ ctx.h # "" /\ CallerFields # <<>>
     /\ ~HasOwn(ReqParams, "dataFields") /\ ~HasOwn(ReqParams, "valuesArray")) =>
        /\ Deref(Get(ctx.inputs, "dataFields"), ctx.inputs) = CallerFields
        /\ Get(ctx.inputs, "valuesArray") = Arr(ObjectValues(CallerFields))

CredentialSpellings ==
    {[snake |-> "client_id", camel |-> "clientId", read |-> "clientId"],
     [snake |-> "client_secret", camel |-> "clientSecret", read |-> "secretId"],
     [snake |-> "access_token", camel |-> "accessToken", read |-> "access_token"]}

\* C8: the client id, the client secret and the access token reach the
\* strategy as credentials.clientId, .secretId and .access_token, under the
\* snake_case spelling and under the camelCase spelling alike.
C8_CredentialAliasesReachStrategy ==
    (IsNativeDispatch /\ calls # <<>>) =>
        \A a \in CredentialSpellings : \A spelling \in {a.snake, a.camel} :
            (HasOwn(ReqCredentials, spelling) /\ ~HasOwn(ReqCredentials, a.read)) =>
                calls[1].auth[a.read] = Get(ReqCredentials, spelling)

RangeOfRow(r) == Str(<<"Sheet1!A">> \o Digits(r + 1))

\* C9: the Sheets update operation and the legacy PUT /update-entry both
\* address row r + 1 ("Sheet1!A3" for rowIndex 2) for a rowIndex r given as
\* a number or as a numeric string.
C9_UpdateRange ==
    \A r \in RowIndices :
        /\ (/\ IsNativeDispatch /\ ReqOp.execute = "sheets.update" /\ calls # <<>>
            /\ Get(ReqParams, "rowIndex") \in {Num(r), Str(Digits(r))})
           => Get(calls[1].args, "range") = RangeOfRow(r)
        /\ (/\ req.endpoint = "/update-entry" /\ calls # <<>>
            /\ req.body.rowIndex \in {Num(r), Str(Digits(r))})
           => Get(calls[1].args, "range") = RangeOfRow(r)

\* C10: airtable-crud/create with baseId, tableName, dataFields and apiKey
\* issues exactly one request: POST <baseurl>/<baseId>/<tableName>, header
\* Authorization: Bearer <apiKey>, payload {fields: dataFields}; and a GET
\* or DELETE of an operation without payload builder carries no payload.
C10_AirtableCreateRequest ==
    /\ (/\ IsRestDispatch /\ req.body.operation = "create"
        /\ Truthy(Get(ReqParams, "baseId")) /\ Truthy(Get(ReqParams, "tableName"))
        /\ HasOwn(ReqParams, "dataFields") /\ HasOwn(ReqCredentials, "apiKey"))
       => /\ Len(calls) = 1
          /\ calls[1].kind = "axios"
          /\ calls[1].method = <<"post">>
          /\ calls[1].url = Str(<<"https://api.airtable.com/v0", "/">>
                                 \o Get(ReqParams, "baseId").s \o <<"/">>
                                 \o Get(ReqParams, "tableName").s)
          /\ GetV(calls[1].headers, "Authorization") =
                Str(<<"Bearer ">> \o Get(ReqCredentials, "apiKey").s)
          /\ calls[1].hasData
          /\ calls[1].data = Obj(<<E("fields", Get(ReqParams, "dataFields"))>>)
    /\ (/\ IsRestDispatch /\ calls # <<>>
        /\ ReqOp.buildPayload = "" /\ ReqOp.method \in {<<"GET">>, <<"DELETE">>})
       => ~calls[1].hasData

C10_Witness ==
    /\ IsRestDispatch /\ req.body.operation = "create" /\ pc = "done"
    /\ Get(ReqParams, "baseId") = S("b1") /\ Get(ReqParams, "tableName") = S("t1")
    /\ HasOwn(ReqParams, "dataFields") /\ Get(ReqCredentials, "apiKey") = S("k")
    /\ Len(calls) = 1 /\ res[1].status = 200

RestSteps == {"requiredFields", "buildUrl", "buildHeaders", "buildPayload", "axios"}

Took(step) == \E i \in 1..Len(trail) : trail[i] = step

Count(step) == Cardinality({i \in 1..Len(trail) : trail[i] = step})

\* C11: a dispatch takes one path only.  When the resolved operation has
\* execute, execute is invoked once and no step of the REST call (required
\* fields, builders, axios) is taken, also when execute throws; otherwise
\* only REST steps are taken and execute never is.  Every dispatch that ends
\* has sent exactly one response, and none sends a second.
C11_OnePathOneResponse ==
    IsBlockExecute =>
        /\ IsNativeDispatch =>
                /\ Count("execute") = 1
                /\ \A step \in RestSteps : ~Took(step)
                /\ \A i \in 1..Len(calls) : calls[i].kind = "sdk"
        /\ ~IsNativeDispatch =>
                /\ ~Took("execute")
                /\ \A i \in 1..Len(calls) : calls[i].kind = "axios"
        /\ ~(Took("execute") /\ \E step \in RestSteps : Took(step))
        /\ Count("respond") = Len(res)
        /\ Count("respond") = IF pc = "done" THEN 1 ELSE 0
        /\ Took("respond") => trail[Len(trail)] = "respond"

\* execute threw: the catch answered, and no REST step followed
C11_Witness ==
    /\ IsNativeDispatch /\ pc = "done"
    /\ thrown # <<>>
    /\ trail = <<"execute", "respond">>
    /\ res[1].status = 500

====
